---- MODULE Spec2Model ----
(***************************************************************************)
(* Model of the browser client embedded in src/radar_turret/web.h: the     *)
(* module-level view state, the /status poll loop with its then/catch      *)
(* handlers, updateUI(), draw() with the per-render decay of `objects`,    *)
(* and the command / modal handlers.                                       *)
(*                                                                         *)
(* JavaScript is single threaded: every action below is one event-loop     *)
(* task (a timer tick, a click handler, or the promise chain run when a    *)
(* response arrives) and runs to completion.                               *)
(***************************************************************************)
EXTENDS Integers, Sequences, FiniteSets, TLC

VARIABLES
  pc,            \* "load" before init() has run, "run" afterwards
  scanAngle,     \* let scanAngle
  maxRange,      \* let maxRange
  currentMode,   \* let currentMode
  isRunning,     \* let isRunning
  isOffline,     \* let isOffline
  objects,       \* let objects: sequence of [a, r, life]
  lastDetection, \* textContent of #last-detection: READY, or the LAST: d cm @ a template
  ui,            \* what updateUI() wrote: badge text, toggle text, selected button
  frame,         \* what the last draw() painted
  modal,         \* names of the modals carrying the class "active"
  logText,       \* value of #log-text
  cfg,           \* values of the four range inputs cfg-dist, cfg-lock, cfg-min, cfg-max
  net,           \* requests in flight that have a handler attached, in issue order
  task,          \* name of the last task run
  fetched,       \* the fetch() calls made by the last task, in call order
  resp,          \* the response handed to the last task (NoResp for other tasks)
  thrown,        \* TRUE iff the last then-handler threw and control passed to catch
  dialog,        \* the confirm() dialog shown by the last task and its answer
  rangeBefore,   \* maxRange as it was when the last task started
  calls          \* how often the last task entered updateUI() and draw()

viewVars == <<scanAngle, maxRange, currentMode, isRunning, isOffline>>

pageVars == <<lastDetection, ui, frame>>

modalVars == <<modal, logText, cfg>>

stepVars == <<task, fetched, resp, thrown, dialog, rangeBefore, calls>>

vars == <<pc, viewVars, objects, pageVars, modalVars, net, stepVars>>

----------------------------------------------------------------------------
(* Bounds of the model *)

\* polls that may be outstanding at once (setInterval does not wait for replies)
MaxInFlight == 2
\* targets come in bursts: the device reports d > 0 to an empty buffer or
\* right after an answer that reported one, at most this many times in a row
MaxObjects == 2

----------------------------------------------------------------------------
(* IEEE-754 double arithmetic for `life`.                                   *)
(* A life value is the exact double, written in units of 2^-58 as           *)
(* hi * 2^29 + lo with 0 <= lo < 2^29.  0.02 is the double nearest 0.02:    *)
(* 5764607523034235 * 2^-58.  Every double met here (|x| <= 1.0) is a       *)
(* multiple of 2^-58, so the exact difference is an integer number of units *)
(* and only the rounding to 53 significant bits has to be modelled.         *)

Limb == 536870912

One == [hi |-> Limb, lo |-> 0]

\* variant: obj.life -= 0.015625 (2^-6)
DecayStepSlow == [hi |-> 8388608, lo |-> 0]

DecayStep == [hi |-> 10737418, lo |-> 128849019]

\* x > 0 on doubles
Positive(x) == x.hi > 0 \/ (x.hi = 0 /\ x.lo > 0)

\* spacing of doubles (in units) in the binade of a positive x
Ulp(x) ==
  IF x.hi >= 268435456 THEN 32
  ELSE IF x.hi >= 134217728 THEN 16
  ELSE IF x.hi >= 67108864 THEN 8
  ELSE IF x.hi >= 33554432 THEN 4
  ELSE IF x.hi >= 16777216 THEN 2
  ELSE 1

\* round-to-nearest, ties-to-even, of an exact value to a double
RoundDouble(x) ==
  IF ~Positive(x) THEN x
  ELSE LET m   == Ulp(x)
           q   == x.lo \div m
           rem == x.lo % m
           up  == IF 2 * rem > m \/ (2 * rem = m /\ q % 2 = 1) THEN 1 ELSE 0
           lo2 == (q + up) * m
       IN IF lo2 = Limb THEN [hi |-> x.hi + 1, lo |-> 0]
                        ELSE [hi |-> x.hi, lo |-> lo2]

\* the double x - y
FSub(x, y) ==
  LET lo == x.lo - y.lo
      b  == IF lo < 0 THEN 1 ELSE 0
  IN RoundDouble([hi |-> x.hi - y.hi - b, lo |-> lo + b * Limb])

----------------------------------------------------------------------------
(* JSON bodies of /status: a function from the field names present to       *)
(* numbers.                                                                 *)

Has(data, f) == f \in DOMAIN data

\* variant: data[f] ?? ..., only a missing field counts as empty
TruthyPresent(data, f) == Has(data, f)

\* JavaScript truthiness of data[f] for a numeric or missing field
Truthy(data, f) == Has(data, f) /\ data[f] # 0

Absent == -1

StatusFields == {"a", "r", "mode", "running", "d", "li_a", "li_d"}

\* the JSON object with the given fields, leaving out those given as Absent
Json(a, r, mode, running, d, li_a, li_d) ==
  LET all == [x \in StatusFields |->
                CASE x = "a" -> a [] x = "r" -> r [] x = "mode" -> mode
                  [] x = "running" -> running [] x = "d" -> d
                  [] x = "li_a" -> li_a [] x = "li_d" -> li_d]
      present == {x \in StatusFields : all[x] # Absent}
  IN [x \in present |-> all[x]]

NoResp == [kind |-> "none"]

\* outcomes of fetch('/status') that reject the promise chain before the
\* then-handler: network error, r.ok false, r.json() rejecting
FailKinds == {"neterr", "http", "badjson"}

FailResponses == {[kind |-> k] : k \in FailKinds}

\* bodies that vary every view field and report no target
OkResponses ==
  {[kind |-> "ok", data |-> Json(a, r, m, run, d, Absent, Absent)] :
     a \in {45, 90}, r \in {Absent, 0, 100}, m \in {Absent, 2, 7},
     run \in {0, 1}, d \in {Absent, 0}}

Responses == FailResponses \cup OkResponses

\* bodies with and without a target at 30 cm: every optional field missing,
\* every field present with d = 0 and with d = 30, and an unknown mode
TargetResponses ==
  {[kind |-> "ok", data |-> Json(45, Absent, Absent, 0, Absent, Absent, Absent)],
   [kind |-> "ok", data |-> Json(45, 20, 2, 1, 0, Absent, Absent)],
   [kind |-> "ok", data |-> Json(45, 20, 2, 1, 30, Absent, Absent)],
   [kind |-> "ok", data |-> Json(45, Absent, 7, 1, 30, Absent, Absent)]}

DecayResponses == {[kind |-> "neterr"]} \cup TargetResponses

\* a failure and an answer with a target
ModalResponses ==
  {[kind |-> "neterr"],
   [kind |-> "ok", data |-> Json(45, 20, 2, 1, 30, Absent, Absent)]}

\* bodies with and without the last-intrusion pair: each of li_a and li_d
\* missing, 0, and a value of its range (li_a = 180 is the largest angle)
IntrusionResponses ==
  {[kind |-> "neterr"]} \cup
  {[kind |-> "ok", data |-> Json(45, Absent, m, 1, Absent, la, ld)] :
     m \in {2, 7}, la \in {Absent, 0, 90, 180}, ld \in {Absent, 0, 40}}

\* a failure, an answer without a target and an answer with one
FloodResponses ==
  {[kind |-> "neterr"],
   [kind |-> "ok", data |-> Json(45, 20, 2, 1, 0, Absent, Absent)],
   [kind |-> "ok", data |-> Json(45, 20, 2, 1, 30, Absent, Absent)]}

----------------------------------------------------------------------------
(* Page constants *)

modeNames == <<"sentry", "stealth", "aggressive", "party">>

modeColors == <<"#0f0", "#666", "#f00", "#f0f">>

DefaultColor == "#0f0"

\* the 50 of maxRange = data.r || 50
DefaultRange == 50

\* radius = height - 15 with height = 260
Radius == 245

\* String.prototype.toUpperCase on the mode names
ToUpperCase(s) ==
  CASE s = "sentry" -> "SENTRY"
    [] s = "stealth" -> "STEALTH"
    [] s = "aggressive" -> "AGGRESSIVE"
    [] s = "party" -> "PARTY"

\* modeNames[m] / modeColors[m] is undefined unless m is an index of the array
Indexed(arr, m) == m \in 0..(Len(arr) - 1)

----------------------------------------------------------------------------
(* updateUI(): returns the widgets it wrote and whether it threw.           *)
(* For a mode that is no index of modeNames, line 442 stores undefined in   *)
(* badge.className and line 443 throws a TypeError (undefined.toUpperCase), *)
(* so the toggle button and the mode buttons are not reached.               *)

updateUI(prev, off, mode, running) ==
  IF off
    THEN [threw |-> FALSE,
          ui |-> [badgeClass |-> "offline", badgeText |-> "OFFLINE",
                  toggle |-> IF running THEN "STOP" ELSE "START",
                  selected |-> {mode} \cap (0..3)]]
  ELSE IF Indexed(modeNames, mode)
    THEN [threw |-> FALSE,
          ui |-> [badgeClass |-> modeNames[mode + 1],
                  badgeText |-> ToUpperCase(modeNames[mode + 1]),
                  toggle |-> IF running THEN "STOP" ELSE "START",
                  selected |-> {mode} \cap (0..3)]]
  ELSE [threw |-> TRUE,
        ui |-> [prev EXCEPT !.badgeClass = "undefined"]]

----------------------------------------------------------------------------
(* draw(): the decay tick followed by the painting.                         *)

\* objects.forEach(obj => obj.life -= 0.02)
Decay(objs) == [k \in 1..Len(objs) |-> [objs[k] EXCEPT !.life = FSub(@, DecayStep)]]

\* variant: filter(obj => obj.life > 0.02)
AliveEarly(obj) == Positive(FSub(obj.life, DecayStep))

Alive(obj) == Positive(obj.life)

\* variant: the buffer is capped, the oldest entry is shifted out
TickCapped(objs) ==
  LET live == SelectSeq(Decay(objs), Alive)
  IN IF Len(live) > 1 THEN Tail(live) ELSE live

\* objects = objects.filter(obj => obj.life > 0)
Tick(objs) == SelectSeq(Decay(objs), Alive)

\* variant: dist = Math.min((obj.r / maxRange) * radius, radius); dist > 0
InRangeClamped(obj, range) ==
  /\ range # 0
  /\ obj.r * range > 0

\* dist = (obj.r / maxRange) * radius; dist > 0 && dist <= radius.  For the
\* integers met here the quotient is <= 1 exactly when obj.r <= maxRange, and
\* a division by 0 gives an infinite or NaN dist, which fails the test.
InRange(obj, range) ==
  /\ range # 0
  /\ obj.r * range > 0
  /\ IF range > 0 THEN obj.r * Radius <= Radius * range
                  ELSE obj.r * Radius >= Radius * range

\* variant: the decay is skipped while the page is disconnected
drawFrozenOffline(objs, angle, range, mode, off) ==
  LET live == IF off THEN objs ELSE Tick(objs)
  IN [objects |-> live,
      frame |-> [color |-> IF Indexed(modeColors, mode) THEN modeColors[mode + 1]
                                                      ELSE DefaultColor,
                 sweep |-> angle,
                 dots |-> SelectSeq(live, LAMBDA o : InRange(o, range)),
                 label |-> off]]

draw(objs, angle, range, mode, off) ==
  LET live == Tick(objs)
  IN [objects |-> live,
      frame |-> [color |-> IF Indexed(modeColors, mode) THEN modeColors[mode + 1]
                                                      ELSE DefaultColor,
                 sweep |-> angle,
                 dots |-> SelectSeq(live, LAMBDA o : InRange(o, range)),
                 label |-> off]]

NoFrame == [color |-> "none", sweep |-> 0, dots |-> <<>>, label |-> FALSE]

----------------------------------------------------------------------------
(* Initial state: the module-level declarations and the static page *)

InitUI == [badgeClass |-> "offline", badgeText |-> "OFFLINE", toggle |-> "START",
           selected |-> {}]

\* variant: cfg-min has max="120"
SliderWide ==
  [dist |-> [min |-> 10, max |-> 200, step |-> 1],
   lock |-> [min |-> 500, max |-> 5000, step |-> 100],
   min  |-> [min |-> 0, max |-> 120, step |-> 1],
   max  |-> [min |-> 100, max |-> 180, step |-> 1]]

\* min, max and step attributes of the range inputs
Slider ==
  [dist |-> [min |-> 10, max |-> 200, step |-> 1],
   lock |-> [min |-> 500, max |-> 5000, step |-> 100],
   min  |-> [min |-> 0, max |-> 80, step |-> 1],
   max  |-> [min |-> 100, max |-> 180, step |-> 1]]

\* el.value = v on <input type="range">: the value is clamped to [min, max]
\* and moved to the nearest multiple of step counted from min
SetValue(name, v) ==
  LET s  == Slider[name]
      c  == IF v < s.min THEN s.min ELSE IF v > s.max THEN s.max ELSE v
      k  == (c - s.min + s.step \div 2) \div s.step
      sn == s.min + k * s.step
  IN IF sn > s.max THEN sn - s.step ELSE sn

\* a range input without a value attribute starts at the middle of its range
InitCfg == [x \in DOMAIN Slider |->
              SetValue(x, Slider[x].min + (Slider[x].max - Slider[x].min) \div 2)]

NoDialog == [question |-> "none", answer |-> FALSE]

NoCalls == [updateUI |-> 0, draw |-> 0]

Init ==
  /\ pc = "load"
  /\ scanAngle = 90
  /\ maxRange = 50
  /\ currentMode = 0
  /\ isRunning = FALSE
  /\ isOffline = TRUE
  /\ objects = <<>>
  /\ lastDetection = [text |-> "READY"]
  /\ ui = InitUI
  /\ frame = NoFrame
  /\ modal = {}
  /\ logText = "Loading..."
  /\ cfg = InitCfg
  /\ net = <<>>
  /\ task = "none"
  /\ fetched = <<>>
  /\ resp = NoResp
  /\ thrown = FALSE
  /\ dialog = NoDialog
  /\ rangeBefore = 50
  /\ calls = NoCalls

\* what a task that handles no response and shows no dialog leaves in the
\* step variables
Ran(name, requests) ==
  /\ task' = name
  /\ fetched' = requests
  /\ resp' = NoResp
  /\ thrown' = FALSE
  /\ dialog' = NoDialog
  /\ rangeBefore' = maxRange
  /\ calls' = NoCalls

\* a request as fetch() puts it in flight
Request(path) == [path |-> path, late |-> FALSE]

\* net without its i-th request; the /status requests issued before an
\* answered /status request are from now on answered after a younger one
Settle(i) ==
  [k \in 1..(Len(net) - 1) |->
     IF k < i
       THEN IF net[i].path = "/status" /\ net[k].path = "/status"
              THEN [net[k] EXCEPT !.late = TRUE] ELSE net[k]
       ELSE net[k + 1]]

\* init(): first draw, the clock-sync request, and the start of the poll timer
init ==
  /\ pc = "load"
  /\ pc' = "run"
  /\ LET d == draw(objects, scanAngle, maxRange, currentMode, isOffline)
     IN /\ objects' = d.objects
        /\ frame' = d.frame
  /\ net' = Append(net, Request("/time_sync"))
  /\ task' = "init"
  /\ fetched' = <<[path |-> "/time_sync"]>>
  /\ calls' = [updateUI |-> 0, draw |-> 1]
  /\ rangeBefore' = maxRange
  /\ UNCHANGED <<viewVars, lastDetection, ui, modalVars, resp, thrown, dialog>>

\* variant: the catch handler of the clock-sync request is the one of the poll
TimeSyncArriveOffline(i, ok) ==
  /\ i \in 1..Len(net)
  /\ net[i].path = "/time_sync"
  /\ net' = Settle(i)
  /\ Ran(IF ok THEN "timeSyncDone" ELSE "timeSyncCatch", <<>>)
  /\ isOffline' = (isOffline \/ ~ok)
  /\ UNCHANGED <<pc, scanAngle, maxRange, currentMode, isRunning, objects,
                 pageVars, modalVars>>

\* fetch('/time_sync?ts=...').catch(() => {}): an answer runs no callback, a
\* failure runs the empty catch handler
TimeSyncArrive(i, ok) ==
  /\ i \in 1..Len(net)
  /\ net[i].path = "/time_sync"
  /\ net' = Settle(i)
  /\ Ran(IF ok THEN "timeSyncDone" ELSE "timeSyncCatch", <<>>)
  /\ UNCHANGED <<pc, viewVars, objects, pageVars, modalVars>>

----------------------------------------------------------------------------
(* The poll loop *)

\* pollStatus() up to the fetch: one timer tick issues one /status request
pollStatus ==
  /\ pc = "run"
  /\ Len(net) < MaxInFlight
  /\ net' = Append(net, Request("/status"))
  /\ Ran("pollStatus", <<[path |-> "/status"]>>)
  /\ UNCHANGED <<pc, viewVars, objects, pageVars, modalVars>>

\* variant: maxRange = data.r || maxRange
NewMaxRangeKeep(data) == IF Truthy(data, "r") THEN data.r ELSE maxRange

\* maxRange = data.r || 50
NewMaxRange(data) == IF Truthy(data, "r") THEN data.r ELSE DefaultRange

\* currentMode = data.mode || 0
NewMode(data) == IF Truthy(data, "mode") THEN data.mode ELSE 0

\* isRunning = data.running === 1
NewRunning(data) == Has(data, "running") /\ data.running = 1

\* variant: if (data.d >= 0) objects.push(...)
PushedOnZero(data) ==
  IF Has(data, "d") /\ data.d >= 0
    THEN <<[a |-> data.a, r |-> data.d, life |-> One]>>
    ELSE <<>>

\* if (data.d > 0) objects.push({ a: data.a, r: data.d, life: 1.0 })
Pushed(data) ==
  IF Has(data, "d") /\ data.d > 0
    THEN <<[a |-> data.a, r |-> data.d, life |-> One]>>
    ELSE <<>>

\* if (data.li_a && data.li_d) footer = `LAST: ${li_d}cm @ ${li_a}`
NewLastDetection(prev, data) ==
  IF Truthy(data, "li_a") /\ Truthy(data, "li_d")
    THEN [text |-> "LAST", d |-> data.li_d, a |-> data.li_a]
    ELSE prev

\* variant: the catch handler forgets to mark the page offline
CatchOnline(angle, range, mode, running, objs, prevUi) ==
  LET u == updateUI(prevUi, TRUE, mode, running)
      d == draw(objs, angle, range, mode, TRUE)
  IN /\ isOffline' = isOffline
     /\ ui' = u.ui
     /\ objects' = d.objects
     /\ frame' = d.frame

\* the buffer is empty, or its youngest entry was pushed by the previous
\* handler and the burst is not yet MaxObjects long
BurstOpen ==
  IF objects = <<>>
    THEN TRUE
    ELSE /\ Len(objects) < MaxObjects
         /\ objects[Len(objects)].life = FSub(One, DecayStep)

\* .catch(() => { isOffline = true; updateUI(); draw(); })
Catch(angle, range, mode, running, objs, prevUi) ==
  LET u == updateUI(prevUi, TRUE, mode, running)
      d == draw(objs, angle, range, mode, TRUE)
  IN /\ isOffline' = TRUE
     /\ ui' = u.ui
     /\ objects' = d.objects
     /\ frame' = d.frame

\* .then(data => { ... updateUI(); draw(); }); an exception thrown inside it
\* rejects the chain and runs the catch handler in the same task
Then(data) ==
  LET angle == data.a
      range == NewMaxRange(data)
      mode  == NewMode(data)
      run   == NewRunning(data)
      objs  == objects \o Pushed(data)
      u     == updateUI(ui, FALSE, mode, run)
      d     == draw(objs, angle, range, mode, FALSE)
  IN /\ scanAngle' = angle
     /\ maxRange' = range
     /\ currentMode' = mode
     /\ isRunning' = run
     /\ lastDetection' = NewLastDetection(lastDetection, data)
     /\ thrown' = u.threw
     /\ calls' = [updateUI |-> IF u.threw THEN 2 ELSE 1, draw |-> 1]
     /\ IF u.threw
          THEN Catch(angle, range, mode, run, objs, u.ui)
          ELSE /\ isOffline' = FALSE
               /\ ui' = u.ui
               /\ objects' = d.objects
               /\ frame' = d.frame

\* the promise chain of pollStatus() run on the answer rsp to the i-th request
Chain(i, rsp) ==
  /\ net' = Settle(i)
  /\ task' = "status"
  /\ resp' = [kind |-> rsp.kind, late |-> net[i].late,
              data |-> IF rsp.kind = "ok" THEN rsp.data ELSE <<>>]
  /\ fetched' = <<>>
  /\ dialog' = NoDialog
  /\ rangeBefore' = maxRange
  /\ IF rsp.kind = "ok"
       THEN Then(rsp.data)
       ELSE /\ Catch(scanAngle, maxRange, currentMode, isRunning, objects, ui)
            /\ thrown' = FALSE
            /\ calls' = [updateUI |-> 1, draw |-> 1]
            /\ UNCHANGED <<scanAngle, maxRange, currentMode, isRunning, lastDetection>>
  /\ UNCHANGED <<pc, modalVars>>

\* variant: answers that were overtaken by a younger answer are dropped
StatusArriveInOrder(i, rsp) ==
  /\ i \in 1..Len(net)
  /\ net[i].path = "/status"
  /\ rsp.kind = "ok" /\ Pushed(rsp.data) # <<>> => BurstOpen
  /\ IF net[i].late
       THEN /\ net' = Settle(i)
            /\ task' = "status"
            /\ resp' = [kind |-> rsp.kind, late |-> TRUE,
                        data |-> IF rsp.kind = "ok" THEN rsp.data ELSE <<>>]
            /\ fetched' = <<>>
            /\ dialog' = NoDialog
            /\ rangeBefore' = maxRange
            /\ calls' = NoCalls
            /\ UNCHANGED <<pc, viewVars, objects, pageVars, modalVars, thrown>>
       ELSE Chain(i, rsp)

\* the i-th request in flight is a /status poll and is answered with rsp
StatusArrive(i, rsp) ==
  /\ i \in 1..Len(net)
  /\ net[i].path = "/status"
  /\ rsp.kind = "ok" /\ Pushed(rsp.data) # <<>> => BurstOpen
  /\ Chain(i, rsp)

\* the buffer is empty, or its youngest entry was pushed by the previous
\* handler: a run of answers with a target may go on without end
FloodOpen ==
  IF objects = <<>>
    THEN TRUE
    ELSE objects[Len(objects)].life = FSub(One, DecayStep)

\* the i-th request in flight is a /status poll and is answered with rsp, by
\* a device that reports a target poll after poll for as long as it likes
StatusArriveFlood(i, rsp) ==
  /\ i \in 1..Len(net)
  /\ net[i].path = "/status"
  /\ rsp.kind = "ok" /\ Pushed(rsp.data) # <<>> => FloodOpen
  /\ Chain(i, rsp)

----------------------------------------------------------------------------
(* Controls.  The header and the mode bar lie under an active modal (which   *)
(* is position: fixed; inset: 0; z-index: 100), so their buttons can be     *)
(* clicked only while no modal is active.                                   *)

\* variant: the button flips isRunning without waiting for the next poll
toggleScanOptimistic ==
  /\ pc = "run"
  /\ modal = {}
  /\ Ran("toggleScan", <<[path |-> "/toggle"]>>)
  /\ isRunning' = ~isRunning
  /\ UNCHANGED <<pc, scanAngle, maxRange, currentMode, isOffline, objects,
                 pageVars, modalVars, net>>

\* toggleScan(): fetch('/toggle'), no handler attached
toggleScan ==
  /\ pc = "run"
  /\ modal = {}
  /\ Ran("toggleScan", <<[path |-> "/toggle"]>>)
  /\ UNCHANGED <<pc, viewVars, objects, pageVars, modalVars, net>>

\* setMode(mode): fetch('/mode?m=' + mode), no handler attached
setMode(mode) ==
  /\ pc = "run"
  /\ modal = {}
  /\ Ran("setMode", <<[path |-> "/mode", m |-> mode]>>)
  /\ UNCHANGED <<pc, viewVars, objects, pageVars, modalVars, net>>

----------------------------------------------------------------------------
(* Modals, logs and configuration *)

\* openModal(name), from the LOGS and CONFIG buttons of the header
openModal(name) ==
  /\ pc = "run"
  /\ modal = {}
  /\ Len(net) < MaxInFlight
  /\ modal' = modal \cup {name}
  /\ logText' = IF name = "logs" THEN "Loading..." ELSE logText
  /\ net' = Append(net, Request(IF name = "logs" THEN "/get_logs" ELSE "/get_config"))
  /\ Ran("openModal", <<[path |-> IF name = "logs" THEN "/get_logs" ELSE "/get_config"]>>)
  /\ UNCHANGED <<pc, viewVars, objects, pageVars, cfg>>

\* closeModal(name), from the CLOSE button of the modal
closeModal(name) ==
  /\ name \in modal
  /\ modal' = modal \ {name}
  /\ Ran("closeModal", <<>>)
  /\ UNCHANGED <<pc, viewVars, objects, pageVars, logText, cfg, net>>

\* bodies of /get_logs
LogTexts == {"12:00:01,90,30"}

\* fetch('/get_logs').then(r => r.text()).then(t => { log-text.value = t }):
\* any answered request, whatever its status, stores its body; a network
\* error rejects a chain that has no catch and changes nothing
LogsArrive(i, rsp) ==
  /\ i \in 1..Len(net)
  /\ net[i].path = "/get_logs"
  /\ net' = Settle(i)
  /\ logText' = IF rsp.kind = "text" THEN rsp.text ELSE logText
  /\ Ran("logs", <<>>)
  /\ UNCHANGED <<pc, viewVars, objects, pageVars, modal, cfg>>

\* bodies of /get_config
Configs == {[dst |-> 80, lck |-> 1500, min |-> 10, max |-> 170]}

\* setInput(name, value) for the four fields of a /get_config body
setInput(c) ==
  [dist |-> SetValue("dist", c.dst), lock |-> SetValue("lock", c.lck),
   min |-> SetValue("min", c.min), max |-> SetValue("max", c.max)]

\* fetch('/get_config').then(r => r.json()).then(c => { setInput ... }): a
\* network error or an unparseable body rejects a chain that has no catch
ConfigArrive(i, rsp) ==
  /\ i \in 1..Len(net)
  /\ net[i].path = "/get_config"
  /\ net' = Settle(i)
  /\ cfg' = IF rsp.kind = "json" THEN setInput(rsp.c) ELSE cfg
  /\ Ran("config", <<>>)
  /\ UNCHANGED <<pc, viewVars, objects, pageVars, modal, logText>>

\* the - and + buttons of the four settings
Buttons ==
  {[name |-> "dist", delta |-> -5], [name |-> "dist", delta |-> 5],
   [name |-> "lock", delta |-> -100], [name |-> "lock", delta |-> 100],
   [name |-> "min", delta |-> -5], [name |-> "min", delta |-> 5],
   [name |-> "max", delta |-> -5], [name |-> "max", delta |-> 5]}

\* a body of /get_config whose values lie next to a bound of their slider
\* and off the grid of the buttons
EdgeConfigs == {[dst |-> 198, lck |-> 4900, min |-> 78, max |-> 102]}

\* the field shows the value it has on page load or one that /get_config
\* delivered
Loaded(f) == cfg[f] \in {InitCfg[f]} \cup {setInput(c)[f] : c \in EdgeConfigs}

\* the user works on one setting per visit, or on the two angles together:
\* the other settings are as loaded
OneSetting(name) ==
  \A f \in (DOMAIN Slider) \ (IF name \in {"min", "max"} THEN {"min", "max"} ELSE {name}) :
    Loaded(f)

\* adjust(name, delta), from the - and + buttons of the config modal
adjust(name, delta) ==
  /\ "config" \in modal
  /\ OneSetting(name)
  /\ LET el  == Slider[name]
         val == cfg[name] + delta
         low == IF el.max < val THEN el.max ELSE val
     IN cfg' = [cfg EXCEPT ![name] = SetValue(name, IF el.min > low THEN el.min ELSE low)]
  /\ Ran("adjust", <<>>)
  /\ UNCHANGED <<pc, viewVars, objects, pageVars, modal, logText, net>>

\* variant: the answer of confirm() is ignored
wipeLogsUnconfirmed(ok) ==
  /\ "logs" \in modal
  /\ task' = "wipeLogs"
  /\ dialog' = [question |-> "Delete all logs?", answer |-> ok]
  /\ fetched' = <<[path |-> "/clear_logs"]>>
  /\ logText' = "[CLEARED]"
  /\ resp' = NoResp
  /\ thrown' = FALSE
  /\ rangeBefore' = maxRange
  /\ calls' = NoCalls
  /\ UNCHANGED <<pc, viewVars, objects, pageVars, modal, cfg, net>>

\* wipeLogs(), from the WIPE button of the logs modal; ok is what confirm()
\* returns
wipeLogs(ok) ==
  /\ "logs" \in modal
  /\ task' = "wipeLogs"
  /\ dialog' = [question |-> "Delete all logs?", answer |-> ok]
  /\ fetched' = IF ok THEN <<[path |-> "/clear_logs"]>> ELSE <<>>
  /\ logText' = IF ok THEN "[CLEARED]" ELSE logText
  /\ resp' = NoResp
  /\ thrown' = FALSE
  /\ rangeBefore' = maxRange
  /\ calls' = NoCalls
  /\ UNCHANGED <<pc, viewVars, objects, pageVars, modal, cfg, net>>

\* variant: the modal is closed only by its CLOSE button
saveSettingsStayOpen ==
  /\ "config" \in modal
  /\ Ran("saveSettings", <<[path |-> "/save_config", d |-> cfg.dist, l |-> cfg.lock,
                            mn |-> cfg.min, mx |-> cfg.max]>>)
  /\ UNCHANGED <<pc, viewVars, objects, pageVars, modalVars, net>>

\* saveSettings(), from the SAVE button of the config modal
saveSettings ==
  /\ "config" \in modal
  /\ Ran("saveSettings", <<[path |-> "/save_config", d |-> cfg.dist, l |-> cfg.lock,
                            mn |-> cfg.min, mx |-> cfg.max]>>)
  /\ modal' = modal \ {"config"}
  /\ UNCHANGED <<pc, viewVars, objects, pageVars, logText, cfg, net>>

\* resetSettings(), from the RESET button of the config modal; ok is what
\* confirm() returns
resetSettings(ok) ==
  /\ "config" \in modal
  /\ task' = "resetSettings"
  /\ dialog' = [question |-> "Reset to defaults?", answer |-> ok]
  /\ fetched' = IF ok THEN <<[path |-> "/reset_config"]>> ELSE <<>>
  /\ modal' = IF ok THEN modal \ {"config"} ELSE modal
  /\ resp' = NoResp
  /\ thrown' = FALSE
  /\ rangeBefore' = maxRange
  /\ calls' = NoCalls
  /\ UNCHANGED <<pc, viewVars, objects, pageVars, logText, cfg, net>>

----------------------------------------------------------------------------
(* Specifications *)

\* the poll loop and the controls against a device that varies every field
\* of the view state and reports no target
Next ==
  \/ init
  \/ \E i \in 1..MaxInFlight, ok \in BOOLEAN : TimeSyncArrive(i, ok)
  \/ pollStatus
  \/ \E i \in 1..MaxInFlight, rsp \in Responses : StatusArrive(i, rsp)
  \/ toggleScan
  \/ \E m \in 0..3 : setMode(m)

Spec == Init /\ [][Next]_vars

\* the same page against a device that reports targets
NextDecay ==
  \/ init
  \/ \E i \in 1..MaxInFlight, ok \in BOOLEAN : TimeSyncArrive(i, ok)
  \/ pollStatus
  \/ \E i \in 1..MaxInFlight, rsp \in DecayResponses : StatusArrive(i, rsp)
  \/ toggleScan
  \/ \E m \in 0..3 : setMode(m)

SpecDecay == Init /\ [][NextDecay]_vars

LogResponses == {[kind |-> "neterr"]} \cup {[kind |-> "text", text |-> t] : t \in LogTexts}

ConfigResponses == {[kind |-> "neterr"]} \cup {[kind |-> "json", c |-> c] : c \in Configs}

\* every handler of the page: the poll loop, the controls and the modals.
\* The clock-sync request stays unanswered here and holds one of the
\* MaxInFlight places for good
NextModal ==
  \/ init
  \/ pollStatus
  \/ \E i \in 1..MaxInFlight, rsp \in ModalResponses : StatusArrive(i, rsp)
  \/ toggleScan
  \/ \E m \in 0..3 : setMode(m)
  \/ \E name \in {"logs", "config"} : openModal(name)
  \/ \E name \in {"logs", "config"} : closeModal(name)
  \/ \E i \in 1..MaxInFlight, rsp \in LogResponses : LogsArrive(i, rsp)
  \/ \E i \in 1..MaxInFlight, rsp \in ConfigResponses : ConfigArrive(i, rsp)
  \/ \E ok \in BOOLEAN : wipeLogs(ok)
  \/ saveSettings
  \/ \E ok \in BOOLEAN : resetSettings(ok)

SpecModal == Init /\ [][NextModal]_vars

\* the poll loop against a device that reports its last intrusion
NextIntrusion ==
  \/ init
  \/ \E i \in 1..MaxInFlight, ok \in BOOLEAN : TimeSyncArrive(i, ok)
  \/ pollStatus
  \/ \E i \in 1..MaxInFlight, rsp \in IntrusionResponses : StatusArrive(i, rsp)

SpecIntrusion == Init /\ [][NextIntrusion]_vars

\* the poll loop against a device that may report a target in every answer
NextFlood ==
  \/ init
  \/ \E i \in 1..MaxInFlight, ok \in BOOLEAN : TimeSyncArrive(i, ok)
  \/ pollStatus
  \/ \E i \in 1..MaxInFlight, rsp \in FloodResponses : StatusArriveFlood(i, rsp)

SpecFlood == Init /\ [][NextFlood]_vars

\* the poll loop against a device that reports targets in short runs, with
\* the scheduling of the browser: the interval timer keeps firing
\* pollStatus, and every fetch is settled in the end, by an answer or by a
\* failure
NextLive ==
  \/ init
  \/ \E i \in 1..MaxInFlight, ok \in BOOLEAN : TimeSyncArrive(i, ok)
  \/ pollStatus
  \/ \E i \in 1..MaxInFlight, rsp \in FloodResponses : StatusArrive(i, rsp)

SpecLive ==
  /\ Init
  /\ [][NextLive]_vars
  /\ WF_vars(pollStatus)
  /\ WF_vars(\E i \in 1..MaxInFlight, rsp \in FloodResponses : StatusArrive(i, rsp))

\* the config modal alone: opened, filled by /get_config, adjusted with the
\* buttons, saved or closed
NextConfig ==
  \/ init
  \/ \E i \in 1..MaxInFlight, ok \in BOOLEAN : TimeSyncArrive(i, ok)
  \/ openModal("config")
  \/ closeModal("config")
  \/ \E i \in 1..MaxInFlight, c \in EdgeConfigs :
       ConfigArrive(i, [kind |-> "json", c |-> c])
  \/ \E b \in Buttons : adjust(b.name, b.delta)
  \/ saveSettings

SpecConfig == Init /\ [][NextConfig]_vars

----------------------------------------------------------------------------
(* Properties *)

\* number of 0.02 steps that separate a life value from 1.0
TicksElapsed(life) == (Limb - life.hi) \div 10737418

\* y is x lowered by 0.02, up to the rounding of the double subtraction
\* (at most half a unit in the last place of numbers below 1.0: 16 units)
Lowered(x, y) ==
  (x.hi - y.hi - 10737418) * Limb + (x.lo - y.lo - 128849019) \in -16..16

\* C1 as stated: a successful /status response whose body omits r, or has
\* r = 0, leaves maxRange at the value it had before the response.
C1_RangeKeptWhenOmitted ==
  (resp.kind = "ok" /\ ~Truthy(resp.data, "r")) => maxRange = rangeBefore

\* C1 as amended: a successful /status response whose body omits r, or has
\* r = 0, sets maxRange to the default 50 whatever its previous value.
C1_RangeDefaultWhenOmitted ==
  (resp.kind = "ok" /\ ~Truthy(resp.data, "r")) => maxRange = 50

C1_Witness ==
  /\ resp.kind = "ok"
  /\ ~Has(resp.data, "r")
  /\ rangeBefore = 100
  /\ maxRange = 50

\* C2: after the handler of a failed poll (network error, non-success status,
\* unparseable body) isOffline is true and scanAngle, currentMode, isRunning
\* and maxRange are what they were before the handler, failure after failure.
C2_FailedPollKeepsView ==
  [][resp'.kind \in FailKinds =>
       /\ isOffline'
       /\ scanAngle' = scanAngle
       /\ currentMode' = currentMode
       /\ isRunning' = isRunning
       /\ maxRange' = maxRange]_vars

C2_Witness ==
  /\ resp.kind \in FailKinds
  /\ isOffline
  /\ scanAngle = 45
  /\ maxRange = 100
  /\ currentMode = 2
  /\ isRunning

\* C3: after the handler of a /status response with a success status and a
\* parseable JSON body, the page is online and scanAngle, currentMode and
\* isRunning are the body's a, mode (0 when absent) and (running = 1).
C3_SuccessShowsResponse ==
  resp.kind = "ok" =>
    /\ ~isOffline
    /\ scanAngle = resp.data.a
    /\ currentMode = (IF Has(resp.data, "mode") THEN resp.data.mode ELSE 0)
    /\ isRunning = (Has(resp.data, "running") /\ resp.data.running = 1)

\* C4: the handler of a successful response with d > 0 appends exactly one
\* entry, with the body's a and d and life 1.0 (0.98 once the draw() of the
\* same handler has ticked it); a body with d = 0 or without d, and a failed
\* poll, append nothing: the buffer is then just the old one after a tick.
C4_OneEntryPerDetection ==
  [][resp'.kind # "none" =>
       IF resp'.kind = "ok" /\ Has(resp'.data, "d") /\ resp'.data.d > 0
         THEN objects' = Tick(objects) \o
                <<[a |-> resp'.data.a, r |-> resp'.data.d,
                   life |-> [hi |-> 526133493, lo |-> 408021888]]>>
         ELSE objects' = Tick(objects)]_vars

C4_Witness ==
  /\ resp.kind = "ok"
  /\ ~thrown
  /\ resp.data = Json(45, 20, 2, 1, 30, Absent, Absent)
  /\ objects = <<[a |-> 45, r |-> 30, life |-> FSub(One, DecayStep)]>>

\* C5: every render lowers the life of each buffered detection by 0.02 and
\* drops it exactly when its life is no longer positive: an entry that has
\* had fewer than 49 ticks is still buffered after the next one, an entry
\* that has had 49 is gone after the 50th, and no buffered entry ever has a
\* life <= 0.
C5_DecayTick ==
  [][resp'.kind # "none" =>
       LET young(o) == TicksElapsed(o.life) < 49
           kept == SelectSeq(objects, young)
       IN /\ Len(objects') - Len(kept) \in {0, 1}
          /\ \A k \in 1..Len(kept) :
               /\ objects'[k].a = kept[k].a
               /\ objects'[k].r = kept[k].r
               /\ TicksElapsed(objects'[k].life) = TicksElapsed(kept[k].life) + 1
               /\ Lowered(kept[k].life, objects'[k].life)
          /\ \A j \in 1..Len(objects') :
               /\ objects'[j].life.hi > 0
                    \/ (objects'[j].life.hi = 0 /\ objects'[j].life.lo > 0)
               /\ TicksElapsed(objects'[j].life) \in 1..49]_vars

C5_Witness ==
  /\ Len(objects) = 2
  /\ TicksElapsed(objects[1].life) = 49
  /\ TicksElapsed(objects[2].life) = 48
  /\ objects[1].life.hi > 0

\* C6: a successful response with a mode outside {0,1,2,3} is handled without
\* an exception: updateUI() and draw() complete and the sweep line is green.
C6_UnknownModeHandled ==
  (resp.kind = "ok" /\ Has(resp.data, "mode") /\ resp.data.mode \notin 0..3) =>
    /\ ~thrown
    /\ frame.color = "#0f0"

\* C7: polls overlap and carry no sequence number: whatever the order of
\* arrival, after a response is handled isOffline, scanAngle, currentMode and
\* isRunning are those its handler wrote, also when the response answers a
\* request older than one already answered.
C7_LastArrivalWins ==
  [][resp'.kind # "none" =>
       IF resp'.kind = "ok"
         THEN /\ scanAngle' = resp'.data.a
              /\ currentMode' = (IF Truthy(resp'.data, "mode") THEN resp'.data.mode ELSE 0)
              /\ isRunning' = (resp'.data.running = 1)
              /\ isOffline' = thrown'
         ELSE /\ isOffline'
              /\ UNCHANGED <<scanAngle, currentMode, isRunning>>]_vars

C7_Witness ==
  /\ resp.kind = "ok"
  /\ resp.late
  /\ ~isOffline
  /\ scanAngle = 45
  /\ resp.data.a = 45
  /\ Len(net) = 1

\* C8: toggleScan() and setMode(m) issue exactly one request each and change
\* neither the view state nor the detection buffer; these change only in the
\* handler of a /status response.
C8_CommandsChangeNothing ==
  [][/\ task' = "toggleScan" =>
          fetched' = <<[path |-> "/toggle"]>> /\ UNCHANGED <<viewVars, objects>>
     /\ task' = "setMode" =>
          /\ Len(fetched') = 1 /\ fetched'[1].path = "/mode" /\ fetched'[1].m \in 0..3
          /\ UNCHANGED <<viewVars, objects>>
     /\ ~UNCHANGED <<viewVars, objects>> => task' = "status"]_vars

C8_Witness ==
  /\ task = "toggleScan"
  /\ fetched = <<[path |-> "/toggle"]>>
  /\ objects # <<>>
  /\ isRunning
  /\ ~isOffline

\* C9: /clear_logs and /reset_config are requested only by a task whose
\* confirm() dialog for that action was accepted; a declined dialog sends no
\* request and changes nothing (log text kept, config modal still active).
C9_ConfirmBeforeDestructive ==
  [][/\ \A k \in 1..Len(fetched') :
          /\ fetched'[k].path = "/clear_logs" =>
               dialog' = [question |-> "Delete all logs?", answer |-> TRUE]
          /\ fetched'[k].path = "/reset_config" =>
               dialog' = [question |-> "Reset to defaults?", answer |-> TRUE]
     /\ (dialog'.question # "none" /\ ~dialog'.answer) =>
          /\ fetched' = <<>>
          /\ UNCHANGED <<pc, viewVars, objects, pageVars, modalVars, net>>]_vars

C9_Witness ==
  /\ dialog = [question |-> "Delete all logs?", answer |-> FALSE]
  /\ fetched = <<>>
  /\ logText = "12:00:01,90,30"
  /\ "logs" \in modal

\* C10: the task that requests /save_config or /reset_config removes the
\* config modal in the same step and leaves view state and detection buffer
\* alone; no later response brings the modal back, only openModal does.
C10_SaveResetCloseView ==
  [][/\ (\E k \in 1..Len(fetched') :
           fetched'[k].path \in {"/save_config", "/reset_config"}) =>
          /\ "config" \in modal
          /\ "config" \notin modal'
          /\ UNCHANGED <<viewVars, objects>>
     /\ ("config" \in modal' /\ "config" \notin modal) => task' = "openModal"]_vars

C10_Witness ==
  /\ task = "saveSettings"
  /\ fetched = <<[path |-> "/save_config", d |-> 80, l |-> 1500, mn |-> 10, mx |-> 170]>>
  /\ "config" \notin modal
  /\ objects # <<>>

\* C11: every render draws the DISCONNECTED label exactly when isOffline is
\* true at that render: the first render of init() draws it, the render of a
\* failed poll draws it with the sweep at the scanAngle held before the
\* failure, and the render of a successful poll does not draw it.
C11_LabelIffOffline ==
  [][/\ task' \in {"init", "status"} => frame'.label = isOffline'
     /\ task' = "init" => frame'.label
     /\ resp'.kind \in FailKinds => frame'.label /\ frame'.sweep = scanAngle
     /\ resp'.kind = "ok" => ~frame'.label]_vars

\* C12: the handler of a successful response carrying li_a in 0..180 and
\* li_d > 0 sets the footer to that pair; a successful response lacking li_a
\* or li_d, and a failed poll, leave the footer as it was.
C12_LastDetectionOverwritten ==
  [][/\ (/\ resp'.kind = "ok"
         /\ Has(resp'.data, "li_a") /\ Has(resp'.data, "li_d")
         /\ resp'.data.li_a \in 0..180 /\ resp'.data.li_d > 0) =>
          lastDetection' = [text |-> "LAST", d |-> resp'.data.li_d,
                            a |-> resp'.data.li_a]
     /\ (\/ resp'.kind \in FailKinds
         \/ /\ resp'.kind = "ok"
            /\ ~(Has(resp'.data, "li_a") /\ Has(resp'.data, "li_d"))) =>
          lastDetection' = lastDetection]_vars

\* C13: /time_sync is requested by init() and by no other task, init() runs
\* once, and no /status poll is issued before it; when the clock-sync request
\* fails nothing of the view state, the buffer or the page changes, and the
\* poll timer started by init() keeps running.
C13_OneTimeSync ==
  [][/\ (\E k \in 1..Len(fetched') : fetched'[k].path = "/time_sync") <=> task' = "init"
     /\ task' = "init" => fetched' = <<[path |-> "/time_sync"]>> /\ pc = "load"
     /\ pc = "run" => pc' = "run" /\ task' # "init"
     /\ (\E k \in 1..Len(fetched') : fetched'[k].path = "/status") => pc = "run"
     /\ task' = "timeSyncCatch" =>
          /\ UNCHANGED <<viewVars, objects, pageVars>>
          /\ pc' = "run"]_vars

C13_Witness ==
  /\ task = "timeSyncCatch"
  /\ ~isOffline
  /\ scanAngle = 45
  /\ net = <<[path |-> "/status", late |-> FALSE]>>

\* C14: the handler of every /status answer, success or failure, enters
\* updateUI() once and draw() once; the one decay tick runs on the buffer
\* that already holds the entry pushed by this handler, and what is painted
\* and written to the widgets is the view state the handler leaves behind.
C14_OneRefreshOneRender ==
  [][resp'.kind # "none" =>
       /\ calls' = [updateUI |-> 1, draw |-> 1]
       /\ objects' = Tick(objects \o (IF resp'.kind = "ok" THEN Pushed(resp'.data)
                                                         ELSE <<>>))
       /\ frame'.sweep = scanAngle'
       /\ frame'.label = isOffline'
       /\ frame'.color = (IF currentMode' \in 0..3 THEN modeColors[currentMode' + 1]
                                                 ELSE "#0f0")
       /\ frame'.dots = SelectSeq(objects', LAMBDA o : InRange(o, maxRange'))
       /\ ui'.toggle = (IF isRunning' THEN "STOP" ELSE "START")
       /\ ui'.badgeText = (IF isOffline' THEN "OFFLINE"
                                        ELSE ToUpperCase(modeNames[currentMode' + 1]))]_vars

\* C15: maxRange is not 0 in any reachable state: it starts at 50, and an
\* answer with r = 0 or without r stores the default instead of 0.
C15_RangeNeverZero == maxRange # 0

C15_Witness ==
  /\ resp.kind = "ok"
  /\ Has(resp.data, "r")
  /\ resp.data.r = 0
  /\ rangeBefore = 100
  /\ maxRange = 50

\* C16: an entry leaves the buffer only in the decay tick of a poll handler's
\* render, when its lowered life is no longer positive; every other entry
\* keeps its place, angle and distance.  The commands leave the buffer as it
\* is.  An answer with d > 0 appends its entry also when the buffer already
\* holds one with the same angle and distance.
C16_OnlyDecayRemoves ==
  [][/\ task' # "status" => objects' = objects
     /\ task' = "status" =>
          LET stay == SelectSeq(objects, LAMBDA o : Positive(FSub(o.life, DecayStep)))
              new  == IF resp'.kind = "ok" /\ Has(resp'.data, "d") /\ resp'.data.d > 0
                        THEN 1 ELSE 0
          IN /\ Len(objects') = Len(stay) + new
             /\ \A k \in 1..Len(stay) :
                  objects'[k].a = stay[k].a /\ objects'[k].r = stay[k].r]_vars

C16_Witness ==
  /\ task = "status"
  /\ resp.kind = "ok"
  /\ Len(objects) = 2
  /\ objects[1].a = objects[2].a
  /\ objects[1].r = objects[2].r
  /\ objects[1].life # objects[2].life

\* C17: every render paints exactly the buffered detections whose distance
\* is positive and at most the maxRange of that render, each at its own
\* distance; a detection farther than maxRange is not painted but stays in
\* the buffer, 0.02 lower in life, until its 50th tick.
C17_DrawnIffWithinRange ==
  [][task' \in {"init", "status"} =>
       /\ frame'.dots = SelectSeq(objects', LAMBDA o : 0 < o.r /\ o.r <= maxRange')
       /\ \A k \in 1..Len(objects) :
            (objects[k].r > maxRange' /\ TicksElapsed(objects[k].life) < 49) =>
              \E j \in 1..Len(objects') :
                /\ objects'[j].a = objects[k].a
                /\ objects'[j].r = objects[k].r
                /\ TicksElapsed(objects'[j].life) = TicksElapsed(objects[k].life) + 1
                /\ Lowered(objects[k].life, objects'[j].life)
                /\ \A i \in 1..Len(frame'.dots) : frame'.dots[i] # objects'[j]]_vars

C17_Witness ==
  /\ task = "status"
  /\ maxRange = 20
  /\ Len(objects) = 1
  /\ objects[1].r = 30
  /\ TicksElapsed(objects[1].life) = 3
  /\ frame.dots = <<>>

\* C18: the buffer never holds more than 50 entries, however long the device
\* keeps reporting a target in every answer.
C18_AtMostFifty == Len(objects) <= 50

C18_Witness ==
  /\ Len(objects) = 49
  /\ TicksElapsed(objects[1].life) = 49
  /\ TicksElapsed(objects[49].life) = 1

\* C19: a poll handler that reports no target, a failed one included, makes
\* every buffered detection one tick older and leaves an empty buffer empty;
\* the youngest detection has had one tick more than there were handlers
\* since the last reported target, and never more than 51; and once no
\* answer reports a target any more, the buffer becomes empty and stays so.
C19_DecaysToEmpty ==
  /\ [][(task' = "status" /\ Pushed(resp'.data) = <<>>) =>
          /\ objects = <<>> => objects' = <<>>
          /\ objects' # <<>> =>
               /\ objects # <<>>
               /\ TicksElapsed(objects'[Len(objects')].life) =
                    TicksElapsed(objects[Len(objects)].life) + 1]_vars
  /\ [][(task' = "status" /\ Pushed(resp'.data) # <<>>) =>
          TicksElapsed(objects'[Len(objects')].life) = 1]_vars
  /\ [](objects # <<>> => TicksElapsed(objects[Len(objects)].life) <= 51)
  /\ (<>[][~(task' = "status" /\ Pushed(resp'.data) # <<>>)]_vars
        => <>[](objects = <<>>))

C19_Witness ==
  /\ resp.kind = "neterr"
  /\ isOffline
  /\ Len(objects) = 1
  /\ TicksElapsed(objects[1].life) = 49

\* C20: a click on a - or + button moves its setting by the button's delta,
\* or to the bound of the slider when the delta would pass it; the four
\* settings stay within 10..200, 500..5000, 0..80 and 100..180; and every
\* /save_config request carries such values, with mn below mx.
C20_AdjustWithinBounds ==
  [][/\ task' = "adjust" =>
          \E b \in Buttons :
            LET lo == CASE b.name = "dist" -> 10 [] b.name = "lock" -> 500
                        [] b.name = "min" -> 0 [] b.name = "max" -> 100
                hi == CASE b.name = "dist" -> 200 [] b.name = "lock" -> 5000
                        [] b.name = "min" -> 80 [] b.name = "max" -> 180
                to == cfg[b.name] + b.delta
            IN cfg' = [cfg EXCEPT ![b.name] = IF to < lo THEN lo
                                              ELSE IF to > hi THEN hi ELSE to]
     /\ cfg'.dist \in 10..200
     /\ cfg'.lock \in 500..5000
     /\ cfg'.min \in 0..80
     /\ cfg'.max \in 100..180
     /\ \A k \in 1..Len(fetched') :
          fetched'[k].path = "/save_config" =>
            /\ fetched'[k].d \in 10..200
            /\ fetched'[k].l \in 500..5000
            /\ fetched'[k].mn \in 0..80
            /\ fetched'[k].mx \in 100..180
            /\ fetched'[k].mn < fetched'[k].mx]_vars

C20_Witness ==
  /\ task = "saveSettings"
  /\ fetched = <<[path |-> "/save_config", d |-> 198, l |-> 4900,
                  mn |-> 80, mx |-> 100]>>

====
